---- MODULE Spec2Model ----
(***************************************************************************)
(* Model of compress_images.py: the main process (the __main__ block and   *)
(* process_directory), the pool of worker processes created by             *)
(* Pool(cpu_count()) that run process_image over the chunks pool.map makes,*)
(* the manager queue of API keys they share, and the sqlite table          *)
(* processed_files that survives from one run of the program to the next.  *)
(*                                                                         *)
(* A queue entry is identified by its position in the list load_api_keys   *)
(* returned (1..Len(keys)); keys[e] is the string the entry carries.  The  *)
(* code's queue carries the strings; the position is kept so that the      *)
(* model can tell two entries with equal strings apart.                    *)
(*                                                                         *)
(* process_directory is entered in two ways: from the __main__ block       *)
(* (invocation = "script") or by a caller that imports the module and      *)
(* calls process_directory on a directory (invocation = "call").  A third  *)
(* kind of caller (invocation = "store") calls the store functions         *)
(* setup_database and log_processed_file themselves, from several          *)
(* processes at once.                                                      *)
(*                                                                         *)
(* pool.map is the one of CPython 3.8 and later: it answers, or re-raises  *)
(* the first exception, only once every batch has finished.                *)
(***************************************************************************)
EXTENDS Integers, Sequences, FiniteSets, TLC

\* ------------------------------------------------------------------ bounds
\* Image files os.walk finds under the directory, in the order it yields them.
NumItems == 3
\* cpu_count(): the number of worker processes of the Pool.
NumWorkers == 2
\* The most '\n'-separated fields in the body of the API key response.
MaxLines == 2
\* Runs of the program against the same processed_files.db.
MaxRuns == 2
\* Calls of log_processed_file per path that a direct caller makes in one run.
MaxMarks == 2

Items == 1..NumItems
Workers == 1..NumWorkers
\* A field of the response body: 0 is the empty string, 1 and 2 are two
\* different key strings, 1 the one that comes first in the body.
Fields == {0, 1, 2}

\* ------------------------------------------------------------------ helpers
Range(s) == {s[i] : i \in DOMAIN s}

SeqsUpTo(S, n) == UNION {[1..k -> S] : k \in 1..n}

\* The bodies of at most MaxLines fields, the key strings numbered in the
\* order they first occur.
Bodies ==
    {l \in SeqsUpTo(Fields, MaxLines) :
        \A i \in DOMAIN l : l[i] = 2 => \E j \in 1..(i - 1) : l[j] = 1}

\* What requests.get(API_URL) may answer: a body, or a RequestException.
Responses ==
    {[ok |-> FALSE, lines |-> <<>>]} \cup
    {[ok |-> TRUE, lines |-> l] : l \in Bodies}

\* A response that was consumed (the local of load_api_keys is gone).
NoResponse == [ok |-> FALSE, lines |-> <<>>]

RECURSIVE LStrip(_)
LStrip(s) == IF s = <<>> THEN <<>>
             ELSE IF Head(s) = 0 THEN LStrip(Tail(s)) ELSE s

RECURSIVE RStrip(_)
RStrip(s) == IF s = <<>> THEN <<>>
             ELSE IF s[Len(s)] = 0 THEN RStrip(SubSeq(s, 1, Len(s) - 1)) ELSE s

\* response.text.strip().split('\n'): the empty fields at both ends go; the
\* split of an empty text is the list with one empty string.
StripSplit(lines) ==
    LET t == RStrip(LStrip(lines))
    IN  IF t = <<>> THEN <<0>> ELSE t

\* A load that tests only "not keys" and leaves out "not all(keys)".
load_api_keys_unchecked(resp) ==
    IF ~resp.ok
    THEN [exit |-> TRUE, keys |-> <<>>]
    ELSE LET keys == StripSplit(resp.lines)
         IN  IF Len(keys) = 0
             THEN [exit |-> TRUE, keys |-> <<>>]
             ELSE [exit |-> FALSE, keys |-> keys]

\* load_api_keys: [exit |-> TRUE] for sys.exit(1), else the key list.
load_api_keys(resp) ==
    IF ~resp.ok
    THEN [exit |-> TRUE, keys |-> <<>>]
    ELSE LET keys == StripSplit(resp.lines)
         IN  IF Len(keys) = 0 \/ \E i \in DOMAIN keys : keys[i] = 0
             THEN [exit |-> TRUE, keys |-> <<>>]
             ELSE [exit |-> FALSE, keys |-> keys]

\* is_file_processed: SELECT 1 FROM processed_files WHERE path = ?
is_file_processed(rows, path) == path \in rows

\* A plain INSERT: the PRIMARY KEY rejects a path that is already a row.
log_processed_file_insert(rows, path) ==
    IF path \in rows
    THEN [rows |-> rows, ok |-> FALSE]
    ELSE [rows |-> rows \cup {path}, ok |-> TRUE]

\* log_processed_file: INSERT OR IGNORE INTO processed_files, then commit.
\* rows is the table after the call, ok is FALSE when the statement raises.
log_processed_file(rows, path) ==
    [rows |-> rows \cup {path}, ok |-> TRUE]

\* setup_database: CREATE TABLE IF NOT EXISTS keeps the rows of an earlier run.
setup_database(rows) == rows

\* The walk without the is_file_processed test.
image_paths_to_process_all(paths, rows) == paths

\* process_directory, the os.walk loop: the discovered paths that are not rows
\* of processed_files, in the order of discovery.
image_paths_to_process(paths, rows) ==
    SelectSeq(paths, LAMBDA p : ~is_file_processed(rows, p))

\* A get that answers with the head and leaves it in the queue.
get_nowait_peek(q) ==
    IF q = <<>>
    THEN [empty |-> TRUE, key |-> 0, rest |-> q]
    ELSE [empty |-> FALSE, key |-> Head(q), rest |-> q]

\* A get that raises Empty while one entry is still queued.
get_nowait_last(q) ==
    IF Len(q) <= 1
    THEN [empty |-> TRUE, key |-> 0, rest |-> q]
    ELSE [empty |-> FALSE, key |-> Head(q), rest |-> Tail(q)]

\* api_keys_queue.get_nowait(): Empty on an empty queue, else the head leaves.
get_nowait(q) ==
    IF q = <<>>
    THEN [empty |-> TRUE, key |-> 0, rest |-> q]
    ELSE [empty |-> FALSE, key |-> Head(q), rest |-> Tail(q)]

\* A put that loses the key.
put_lost(q, key) == q

\* api_keys_queue.put(api_key)
put(q, key) == Append(q, key)

\* Pool._map_async: chunksize, extra = divmod(len(iterable), len(pool) * 4).
chunksize(n) ==
    LET q == n \div (NumWorkers * 4)
        r == n % (NumWorkers * 4)
    IN  IF r # 0 THEN q + 1 ELSE q

\* Pool._get_tasks: the argument list cut into batches of size c.
RECURSIVE get_tasks(_, _)
get_tasks(s, c) ==
    IF s = <<>> THEN <<>>
    ELSE IF Len(s) <= c THEN <<s>>
    ELSE <<SubSeq(s, 1, c)>> \o get_tasks(SubSeq(s, c + 1, Len(s)), c)

\* os.walk order of the discovered image paths.
Discovered == [i \in 1..NumItems |-> i]

\* ------------------------------------------------------------------ state
VARIABLES
    run,          \* the number of this run of the program
    invocation,   \* "script", "call" or "store" (see the top comment)
    argv,         \* "none", "notdir" or "dir": what sys.argv[1:] holds
    resp,         \* what requests.get(API_URL) answers in this run
    pc,           \* position of the main process
    exitCode,     \* status of sys.exit, -1 while none
    store,        \* rows of processed_files (persists across runs)
    store0,       \* the rows at the start of this run
    undone0,      \* items the previous run dispatched and left not recorded
    keys,         \* the list load_api_keys returned
    queue,        \* api_keys_queue: entries available
    dispatched,   \* image_paths_to_process
    taskq,        \* batches of pool.map no worker has fetched yet
    wpc,          \* per worker: position in process_image
    wtask,        \* per worker: the rest of its batch, current item first
    wkey,         \* per worker: the entry api_key holds, 0 when none
    status,       \* per item: its state in this run
    attempted,    \* items for which a get_nowait has returned a key in this run
    resized,      \* per item: resize_image calls made for it in this run
    compressed,   \* items for which compress_image has returned in this run
    marked,       \* per item: log_processed_file calls that returned in this run
    discarded,    \* entries taken and not put back (the except clause)
    allFailedMsg  \* 'All API keys failed and were discarded.' was printed

vars == <<run, invocation, argv, resp, pc, exitCode, store, store0, undone0,
          keys, queue, dispatched, taskq, wpc, wtask, wkey, status, attempted, resized,
          compressed, marked, discarded, allFailedMsg>>

mainVars == <<run, invocation, argv, resp, pc, exitCode>>
poolVars == <<taskq, wpc, wtask, wkey, status, attempted, resized, compressed, marked,
              discarded>>

Entries == 1..Len(keys)

\* The run-local state before process_directory has done anything.
FreshRun ==
    /\ exitCode = -1
    /\ keys = <<>>
    /\ queue = <<>>
    /\ dispatched = <<>>
    /\ taskq = <<>>
    /\ wpc = [w \in Workers |-> "idle"]
    /\ wtask = [w \in Workers |-> <<>>]
    /\ wkey = [w \in Workers |-> 0]
    /\ status = [i \in Items |-> "UNDISCOVERED"]
    /\ attempted = {}
    /\ resized = [i \in Items |-> 0]
    /\ compressed = {}
    /\ marked = [i \in Items |-> 0]
    /\ discarded = {}
    /\ allFailedMsg = FALSE

Init ==
    /\ run = 1
    /\ invocation \in {"script", "call"}
    /\ argv \in IF invocation = "script" THEN {"none", "notdir", "dir"} ELSE {"dir"}
    /\ resp \in Responses
    /\ pc = IF invocation = "script" THEN "main" ELSE "process_directory"
    /\ store = {}
    /\ store0 = {}
    /\ undone0 = {}
    /\ FreshRun


\* ------------------------------------------------------------------ main process
\* The __main__ block: the usage and directory checks exit with status 1; with
\* a directory it evaluates process_directory(directory), and directory is a
\* name the module never binds, so the call raises NameError before
\* process_directory is entered.
Main ==
    /\ pc = "main"
    /\ invocation = "script"
    /\ IF argv = "none" \/ argv = "notdir"
       THEN pc' = "exited" /\ exitCode' = 1
       ELSE pc' = "raised" /\ UNCHANGED exitCode
    /\ UNCHANGED <<run, invocation, argv, resp, store, store0, undone0, keys, queue,
                   dispatched, allFailedMsg>>
    /\ UNCHANGED poolVars

\* process_directory up to the filled queue: setup_database, Manager().Queue(),
\* and one put per key of load_api_keys, or sys.exit(1) inside load_api_keys.
LoadKeys ==
    /\ pc = "process_directory"
    /\ store' = setup_database(store)
    /\ resp' = NoResponse
    /\ LET r == load_api_keys(resp)
       IN  IF r.exit
           THEN /\ pc' = "exited"
                /\ exitCode' = 1
                /\ UNCHANGED <<keys, queue>>
           ELSE /\ pc' = "discover"
                /\ keys' = r.keys
                /\ queue' = [e \in 1..Len(r.keys) |-> e]
                /\ UNCHANGED exitCode
    /\ UNCHANGED <<run, invocation, argv, store0, undone0, dispatched, allFailedMsg,
                   taskq, wpc, wtask, wkey, status, attempted, resized, compressed, marked,
                   discarded>>

\* The os.walk loop, pool_args, and pool.map handing the batches to the pool.
Discover ==
    /\ pc = "discover"
    /\ LET paths == image_paths_to_process(Discovered, store)
       IN  /\ dispatched' = paths
           /\ status' = [i \in Items |->
                           IF i \in Range(paths) THEN "DISPATCHED" ELSE "SKIPPED"]
           /\ taskq' = get_tasks(paths, chunksize(Len(paths)))
    /\ pc' = "map"
    /\ UNCHANGED <<run, invocation, argv, resp, exitCode, store, store0, undone0,
                   keys, queue, allFailedMsg, wpc, wtask, wkey, attempted, resized,
                   compressed, marked, discarded>>

\* ------------------------------------------------------------------ workers
Item(w) == Head(wtask[w])

\* process_image returned for the current item: the worker goes on with the
\* next item of its batch, or has finished the batch.
Returned(w) ==
    /\ wtask' = [wtask EXCEPT ![w] = Tail(@)]
    /\ wpc' = [wpc EXCEPT ![w] = IF Tail(wtask[w]) = <<>> THEN "idle" ELSE "resize"]

\* An except clause after which the loop goes round to resize_image again.
DiscardedThenResize(w) ==
    /\ discarded' = discarded \cup {wkey[w]}
    /\ wkey' = [wkey EXCEPT ![w] = 0]
    /\ wpc' = [wpc EXCEPT ![w] = "resize"]

\* The except clause of process_image: the key is not put back, and the loop
\* goes round to the next get_nowait.
Discarded(w) ==
    /\ discarded' = discarded \cup {wkey[w]}
    /\ wkey' = [wkey EXCEPT ![w] = 0]
    /\ wpc' = [wpc EXCEPT ![w] = "take"]

\* A worker process takes the next batch from the pool's task queue.  Idle
\* workers are interchangeable, so the batch goes to the first of them.
Fetch(w) ==
    /\ pc = "map"
    /\ wpc[w] = "idle"
    /\ \A v \in Workers : v < w => wpc[v] # "idle"
    /\ taskq # <<>>
    /\ wtask' = [wtask EXCEPT ![w] = Head(taskq)]
    /\ taskq' = Tail(taskq)
    /\ wpc' = [wpc EXCEPT ![w] = "resize"]
    /\ UNCHANGED <<mainVars, store, store0, undone0, keys, queue, dispatched,
                   allFailedMsg, wkey, status, attempted, resized, compressed, marked,
                   discarded>>

\* resize_image(image_path) returns.
ResizeOK(w) ==
    /\ pc = "map"
    /\ wpc[w] = "resize"
    /\ wpc' = [wpc EXCEPT ![w] = "take"]
    /\ resized' = [resized EXCEPT ![Item(w)] = @ + 1]
    /\ UNCHANGED <<mainVars, store, store0, undone0, keys, queue, dispatched,
                   allFailedMsg, taskq, wtask, wkey, status, attempted,
                   compressed, marked, discarded>>

\* resize_image(image_path) raises: the call is outside every try, so the
\* exception leaves process_image and ends the worker's batch (mapstar); the
\* items left in the batch are never run.
ResizeFail(w) ==
    /\ pc = "map"
    /\ wpc[w] = "resize"
    /\ status' = [status EXCEPT ![Item(w)] = "RAISED"]
    /\ wtask' = [wtask EXCEPT ![w] = <<>>]
    /\ wpc' = [wpc EXCEPT ![w] = "idle"]
    /\ resized' = [resized EXCEPT ![Item(w)] = @ + 1]
    /\ UNCHANGED <<mainVars, store, store0, undone0, keys, queue, dispatched,
                   allFailedMsg, taskq, wkey, attempted, compressed,
                   marked, discarded>>

\* api_key = api_keys_queue.get_nowait(), or Empty and return False.
Take(w) ==
    /\ pc = "map"
    /\ wpc[w] = "take"
    /\ LET r == get_nowait(queue)
       IN  IF r.empty
           THEN /\ status' = [status EXCEPT ![Item(w)] = "ABANDONED"]
                /\ Returned(w)
                /\ UNCHANGED <<queue, wkey, attempted>>
           ELSE /\ queue' = r.rest
                /\ wkey' = [wkey EXCEPT ![w] = r.key]
                /\ status' = [status EXCEPT ![Item(w)] = "ATTEMPTING"]
                /\ attempted' = attempted \cup {Item(w)}
                /\ wpc' = [wpc EXCEPT ![w] = "compress"]
                /\ UNCHANGED wtask
    /\ UNCHANGED <<mainVars, store, store0, undone0, keys, dispatched,
                   allFailedMsg, taskq, resized, compressed, marked, discarded>>

\* compress_image(api_key, image_path) returns.
CompressOK(w) ==
    /\ pc = "map"
    /\ wpc[w] = "compress"
    /\ wpc' = [wpc EXCEPT ![w] = "log"]
    /\ compressed' = compressed \cup {Item(w)}
    /\ UNCHANGED <<mainVars, store, store0, undone0, keys, queue, dispatched,
                   allFailedMsg, taskq, wtask, wkey, status, attempted, resized, marked,
                   discarded>>

\* An except clause that records the image although compress_image raised.
CompressFailLogged(w) ==
    /\ pc = "map"
    /\ wpc[w] = "compress"
    /\ Discarded(w)
    /\ store' = store \cup {Item(w)}
    /\ UNCHANGED <<mainVars, store0, undone0, keys, queue, dispatched,
                   allFailedMsg, taskq, wtask, status, attempted,
                   resized, compressed, marked>>

\* compress_image raises: caught by except Exception, the key is discarded.
CompressFail(w) ==
    /\ pc = "map"
    /\ wpc[w] = "compress"
    /\ Discarded(w)
    /\ UNCHANGED <<mainVars, store, store0, undone0, keys, queue, dispatched,
                   allFailedMsg, taskq, wtask, status, attempted, resized, compressed,
                   marked>>

\* log_processed_file(image_path) returns, the row committed; were the
\* statement itself to raise, the except clause below would catch it.
LogOK(w) ==
    /\ pc = "map"
    /\ wpc[w] = "log"
    /\ LET r == log_processed_file(store, Item(w))
       IN  IF r.ok
           THEN /\ store' = r.rows
                /\ marked' = [marked EXCEPT ![Item(w)] = @ + 1]
                /\ wpc' = [wpc EXCEPT ![w] = "put"]
                /\ UNCHANGED <<wkey, discarded>>
           ELSE /\ Discarded(w)
                /\ UNCHANGED <<store, marked>>
    /\ UNCHANGED <<mainVars, store0, undone0, keys, queue, dispatched,
                   allFailedMsg, taskq, wtask, status, attempted, resized, compressed>>

\* log_processed_file raises (sqlite3.Error from connect, execute or commit):
\* it is inside the same try as compress_image, so except Exception catches
\* it, the key is not put back and the loop takes another key.
LogFail(w) ==
    /\ pc = "map"
    /\ wpc[w] = "log"
    /\ Discarded(w)
    /\ UNCHANGED <<mainVars, store, store0, undone0, keys, queue, dispatched,
                   allFailedMsg, taskq, wtask, status, attempted, resized, compressed,
                   marked>>

\* api_keys_queue.put(api_key) and return True.
Put(w) ==
    /\ pc = "map"
    /\ wpc[w] = "put"
    /\ queue' = put(queue, wkey[w])
    /\ wkey' = [wkey EXCEPT ![w] = 0]
    /\ status' = [status EXCEPT ![Item(w)] = "DONE"]
    /\ Returned(w)
    /\ UNCHANGED <<mainVars, store, store0, undone0, keys, dispatched,
                   allFailedMsg, taskq, attempted, resized, compressed, marked,
                   discarded>>

\* ------------------------------------------------------------------ end of run
AllTasksDone == taskq = <<>> /\ \A w \in Workers : wpc[w] = "idle"

\* pool.map returns once every batch has answered; it re-raises the first
\* exception a batch ended with, which leaves process_directory uncaught.
MapReturn ==
    /\ pc = "map"
    /\ AllTasksDone
    /\ pc' = IF \E i \in Items : status[i] = "RAISED" THEN "raised" ELSE "report"
    /\ UNCHANGED <<run, invocation, argv, resp, exitCode, store, store0, undone0,
                   keys, queue, dispatched, allFailedMsg>>
    /\ UNCHANGED poolVars

\* A report that prints the message without the api_keys_queue.empty() test.
ReportUnconditional ==
    /\ pc = "report"
    /\ allFailedMsg' = TRUE
    /\ pc' = "returned"
    /\ UNCHANGED <<run, invocation, argv, resp, exitCode, store, store0, undone0,
                   keys, queue, dispatched>>
    /\ UNCHANGED poolVars

\* print("Finished processing.") and the api_keys_queue.empty() test.
Report ==
    /\ pc = "report"
    /\ allFailedMsg' = (queue = <<>>)
    /\ pc' = "returned"
    /\ UNCHANGED <<run, invocation, argv, resp, exitCode, store, store0, undone0,
                   keys, queue, dispatched>>
    /\ UNCHANGED poolVars

Ended == pc \in {"exited", "raised", "returned"}

\* The program is started again, against the same processed_files.db.
Restart ==
    /\ Ended
    /\ invocation \in {"script", "call"}
    /\ run < MaxRuns
    /\ run' = run + 1
    /\ resp' \in Responses
    /\ pc' = IF invocation = "script" THEN "main" ELSE "process_directory"
    /\ store0' = store
    /\ undone0' = {i \in Range(dispatched) : status[i] # "DONE"}
    /\ exitCode' = -1
    /\ keys' = <<>>
    /\ queue' = <<>>
    /\ dispatched' = <<>>
    /\ taskq' = <<>>
    /\ wpc' = [w \in Workers |-> "idle"]
    /\ wtask' = [w \in Workers |-> <<>>]
    /\ wkey' = [w \in Workers |-> 0]
    /\ status' = [i \in Items |-> "UNDISCOVERED"]
    /\ attempted' = {}
    /\ resized' = [i \in Items |-> 0]
    /\ compressed' = {}
    /\ marked' = [i \in Items |-> 0]
    /\ discarded' = {}
    /\ allFailedMsg' = FALSE
    /\ UNCHANGED <<invocation, argv, store>>

Next ==
    \/ Main
    \/ LoadKeys
    \/ Discover
    \/ \E w \in Workers : Fetch(w)
    \/ \E w \in Workers : ResizeOK(w)
    \/ \E w \in Workers : ResizeFail(w)
    \/ \E w \in Workers : Take(w)
    \/ \E w \in Workers : CompressOK(w)
    \/ \E w \in Workers : CompressFail(w)
    \/ \E w \in Workers : LogOK(w)
    \/ \E w \in Workers : LogFail(w)
    \/ \E w \in Workers : Put(w)
    \/ MapReturn
    \/ Report
    \/ Restart

Spec == Init /\ [][Next]_vars

\* ------------------------------------------------------------------ store callers
\* A process that uses the store functions directly starts on the database
\* file as the earlier processes left it.
StoreInit ==
    /\ run = 1
    /\ invocation = "store"
    /\ argv = "dir"
    /\ resp = NoResponse
    /\ pc = "store_setup"
    /\ store = {}
    /\ store0 = {}
    /\ undone0 = {}
    /\ FreshRun

\* setup_database()
StoreSetup ==
    /\ pc = "store_setup"
    /\ store' = setup_database(store)
    /\ pc' = "store"
    /\ UNCHANGED <<run, invocation, argv, resp, exitCode, store0, undone0, keys,
                   queue, dispatched, allFailedMsg>>
    /\ UNCHANGED poolVars

\* One of the caller's processes enters log_processed_file(path).
StoreCall(w, path) ==
    /\ pc = "store"
    /\ wpc[w] = "idle"
    /\ marked[path] < MaxMarks
    /\ wtask' = [wtask EXCEPT ![w] = <<path>>]
    /\ wpc' = [wpc EXCEPT ![w] = "log"]
    /\ UNCHANGED <<mainVars, store, store0, undone0, keys, queue, dispatched,
                   allFailedMsg, taskq, wkey, status, attempted, resized, compressed,
                   marked, discarded>>

\* The INSERT OR IGNORE and its commit, one sqlite transaction; an exception
\* of the statement ends the caller.
StoreLog(w) ==
    /\ pc = "store"
    /\ wpc[w] = "log"
    /\ LET r == log_processed_file(store, Item(w))
       IN  IF r.ok
           THEN /\ store' = r.rows
                /\ marked' = [marked EXCEPT ![Item(w)] = @ + 1]
                /\ UNCHANGED pc
           ELSE /\ pc' = "raised"
                /\ UNCHANGED <<store, marked>>
    /\ wtask' = [wtask EXCEPT ![w] = <<>>]
    /\ wpc' = [wpc EXCEPT ![w] = "idle"]
    /\ UNCHANGED <<run, invocation, argv, resp, exitCode, store0, undone0, keys,
                   queue, dispatched, allFailedMsg, taskq, wkey, status, attempted, resized,
                   compressed, discarded>>

\* The calling program ends and a later one opens the same database file.
StoreRestart ==
    /\ invocation = "store"
    /\ pc \in {"store", "raised"}
    /\ \A w \in Workers : wpc[w] = "idle"
    /\ run < MaxRuns
    /\ run' = run + 1
    /\ pc' = "store_setup"
    /\ store0' = store
    /\ marked' = [i \in Items |-> 0]
    /\ UNCHANGED <<invocation, argv, resp, exitCode, store, undone0, keys, queue,
                   dispatched, allFailedMsg, taskq, wpc, wtask, wkey, status,
                   attempted, resized, compressed, discarded>>

StoreNext ==
    \/ StoreSetup
    \/ \E w \in Workers, path \in Items : StoreCall(w, path)
    \/ \E w \in Workers : StoreLog(w)
    \/ StoreRestart

\* The store under its direct callers.
StoreSpec == StoreInit /\ [][StoreNext]_vars

\* ------------------------------------------------------------------ properties
Held == {wkey[w] : w \in Workers} \ {0}

\* pool.map of a run has answered or re-raised.
EngineOver ==
    /\ invocation = "call"
    /\ pc \in {"report", "returned", "raised"}

\* The run has handed its items to the pool.
HasDispatched ==
    /\ invocation = "call"
    /\ pc \in {"map", "report", "returned", "raised"}

\* C1. No double-issue: an entry taken from the queue is held by at most one
\* worker at a time, and while a worker holds it the queue does not: no two
\* workers are inside an attempt with the same entry.
NoDoubleIssue ==
    /\ \A w1, w2 \in Workers :
          (w1 # w2 /\ wkey[w1] # 0) => wkey[w1] # wkey[w2]
    /\ \A w \in Workers : wkey[w] # 0 => wkey[w] \notin Range(queue)
    /\ \A i, j \in DOMAIN queue : i # j => queue[i] # queue[j]

\* Two workers are inside compress_image at once, one of them with an entry
\* that an earlier attempt had put back.
NoDoubleIssueWitness ==
    /\ \E w1, w2 \in Workers :
          /\ w1 # w2
          /\ wpc[w1] = "compress"
          /\ wpc[w2] = "compress"
    /\ \E i \in Items : status[i] = "DONE"

\* C2. No resurrection: a get_nowait never hands out a key string that some
\* worker has discarded earlier in the run (credentials compared by value).
NoResurrection ==
    [][\A w \in Workers :
          (wkey[w] = 0 /\ wkey'[w] # 0)
              => keys[wkey'[w]] \notin {keys[e] : e \in discarded}]_vars

\* C3. All-success run: with no compress_image and no log_processed_file
\* failure in the run, at the end-of-run report every dispatched item is DONE
\* and recorded, and the queue holds every loaded entry.
AllSuccessRun ==
    (pc \in {"report", "returned"} /\ discarded = {})
        => /\ \A i \in Range(dispatched) : status[i] = "DONE" /\ i \in store
           /\ Len(queue) = Len(keys)

Resumability ==
    HasDispatched
        => /\ Range(dispatched) = {i \in Items : i \notin store0}
           /\ Len(dispatched) = Cardinality(Range(dispatched))
           /\ undone0 \subseteq Range(dispatched)
           /\ \A i \in Items : status[i] = "SKIPPED" <=> i \in store0

\* A second run is in pool.map: it skipped an item the first run recorded
\* and dispatched again one the first run abandoned.
ResumabilityWitness ==
    /\ HasDispatched
    /\ run = 2
    /\ pc = "map"
    /\ store0 # {}
    /\ undone0 # {}
    /\ \E i \in undone0 : status[i] = "ATTEMPTING"

\* C6. Idempotent completion: no step removes a row, so is_file_processed
\* never goes back to false, in a process or in a later one on the same
\* database; and a log_processed_file for a path that is already a row, also while
\* another process is inside log_processed_file, leaves the table as it was
\* and raises nothing.
IdempotentCompletion ==
    [][/\ \A path \in Items :
             is_file_processed(store, path) => is_file_processed(store', path)
       /\ \A w \in Workers :
             (/\ pc = "store"
              /\ wpc[w] = "log"
              /\ wpc'[w] # "log"
              /\ is_file_processed(store, Item(w)))
                 => (store' = store /\ pc' # "raised")]_vars

\* In a later process a path recorded by an earlier one has been marked
\* twice more, and two processes are inside log_processed_file for one path.
IdempotentCompletionWitness ==
    /\ pc = "store"
    /\ run = 2
    /\ \E path \in Items : path \in store0 /\ marked[path] = 2
    /\ \E w1, w2 \in Workers :
          /\ w1 # w2
          /\ wpc[w1] = "log"
          /\ wpc[w2] = "log"
          /\ Item(w1) = Item(w2)
          /\ Item(w1) \in store

\* C7. A log_processed_file failure after a compress_image success is not
\* handled as a transform failure: the key the worker holds is not discarded
\* by the step that leaves log_processed_file, and no get_nowait starts a
\* new attempt for an item whose compress_image has already returned.
StoreFailureDistinct ==
    [][\A w \in Workers :
          /\ (wpc[w] = "log" /\ wpc'[w] # "log") => wkey[w] \notin discarded'
          /\ (wpc[w] = "take" /\ wpc'[w] = "compress")
                => Item(w) \notin compressed]_vars

\* C8. A resize_image failure does not end the run: when resize_image has
\* raised for one item, the run is still in pool.map or goes on to its
\* report, no key was taken for that item, and when pool.map is over every
\* other dispatched item is DONE or ABANDONED.
PreprocessFailureLocal ==
    (invocation = "call" /\ Cardinality({i \in Items : status[i] = "RAISED"}) = 1)
        => /\ pc \in {"map", "report", "returned"}
           /\ \A i \in Items : status[i] = "RAISED" => i \notin attempted
           /\ pc # "map" =>
                 \A i \in Range(dispatched) :
                    status[i] \in {"DONE", "ABANDONED", "RAISED"}

\* C9. Exhaustion is sticky: once a worker has met Empty and abandoned its
\* item, no later get_nowait of the run hands out a key.
ExhaustionSticky ==
    [][(\E i \in Items : status[i] = "ABANDONED")
          => \A w \in Workers : ~(wkey[w] = 0 /\ wkey'[w] # 0)]_vars

\* The exit status of the program once it has ended: that of sys.exit, 1 for
\* an uncaught exception, 0 after process_directory returned.
ExitStatus ==
    IF pc = "exited" THEN exitCode
    ELSE IF pc = "raised" THEN 1
    ELSE 0

\* C10. Entry point outcome: the program started as a script ends with
\* status 0 when its argument is a directory and the key fetch succeeds, and
\* with a non-zero status only when the argument is missing or not a
\* directory or the key fetch fails.
EntryPointOutcome ==
    (invocation = "script" /\ Ended)
        => (ExitStatus = 0 <=> (argv = "dir" /\ ~load_api_keys(resp).exit))

\* The key source gives no usable list: the request raises, the body holds
\* no key at all, or an empty line stands between two keys of the body.
BadSource(r) ==
    \/ ~r.ok
    \/ LET ne == {i \in DOMAIN r.lines : r.lines[i] # 0}
       IN  \/ ne = {}
           \/ \E j \in DOMAIN r.lines :
                 /\ r.lines[j] = 0
                 /\ \E i, k \in ne : i < j /\ j < k

\* C11. No start with zero credentials: when the key source is unreachable
\* or gives an empty list or a list with an empty entry, load_api_keys exits
\* with status 1 before any item is dispatched, any compress_image is called
\* or any row is written; a run that goes on to dispatch has at least one
\* key, none of them empty, and all of them queued.
NoStartWithoutKeys ==
    [][(invocation = "call" /\ pc = "process_directory" /\ pc' # pc)
          => /\ BadSource(resp) =>
                  /\ pc' = "exited"
                  /\ exitCode' = 1
                  /\ dispatched' = <<>>
                  /\ attempted' = {}
                  /\ compressed' = {}
                  /\ store' = store
                  /\ \A w \in Workers : wpc'[w] = "idle"
             /\ pc' # "exited" =>
                  /\ ~BadSource(resp)
                  /\ Len(keys') >= 1
                  /\ \A e \in DOMAIN keys' : keys'[e] # 0
                  /\ Len(queue') = Len(keys')]_vars

\* A second run met a bad key source and exited with status 1, leaving the
\* rows the first run wrote as they were and dispatching nothing.
NoStartWithoutKeysWitness ==
    /\ invocation = "call"
    /\ run = 2
    /\ pc = "exited"
    /\ exitCode = 1
    /\ store # {}
    /\ store = store0
    /\ dispatched = <<>>

\* C12. Item abandoned only on true exhaustion: a get_nowait raises Empty, and
\* the item is abandoned, only when every key of the run has been discarded
\* and no worker holds one.
AbandonedOnlyWhenExhausted ==
    [][\A w \in Workers :
          (wpc[w] = "take" /\ status'[Item(w)] = "ABANDONED")
              => (discarded = Entries /\ Held = {})]_vars

\* C13. Success ordering: the key goes back to the queue before the item is
\* recorded: in no state is the item a worker is on already a row of
\* processed_files while that worker still holds the key it used for it.
ReturnBeforeMarkCompleted ==
    invocation = "call" =>
        \A w \in Workers :
            (wkey[w] # 0 /\ wtask[w] # <<>>) => Item(w) \notin store

\* C14. Termination: every dispatched item reaches DONE or ABANDONED and the
\* run ends, so that a run that is over has left no dispatched item in
\* another state.
EveryItemTerminal ==
    EngineOver =>
        \A i \in Range(dispatched) : status[i] \in {"DONE", "ABANDONED"}

\* The worker is inside an attempt for its current item: it holds a key and
\* is in the try block of process_image.
InAttempt(w) == wpc[w] \in {"compress", "log", "put"}

\* The worker takes a key for an item that has had an attempt already.
Retries(w) ==
    /\ wpc[w] = "take"
    /\ wpc'[w] = "compress"
    /\ Item(w) \in attempted

CredentialConservation ==
    [][invocation = "call" =>
        LET n == Len(keys')
            held == {wkey'[w] : w \in Workers} \ {0}
            holding == {w \in Workers : wkey'[w] # 0}
        IN  /\ Range(queue') \cup held \cup discarded' = 1..n
            /\ Len(queue') + Cardinality(holding) + Cardinality(discarded') = n
            /\ (pc = "map" /\ pc' = "map") =>
                  /\ keys' = keys
                  /\ discarded \subseteq discarded'
                  /\ Len(queue') + Cardinality(held)
                        <= Len(queue) + Cardinality(Held)
                  /\ (\E w \in Workers : wpc[w] = "put" /\ wpc'[w] # "put") =>
                        /\ discarded' = discarded
                        /\ Len(queue') + Cardinality(held)
                              = Len(queue) + Cardinality(Held)]_vars

\* Of two keys one is discarded and the other, put back once by a worker that
\* finished an item, is held again.
CredentialConservationWitness ==
    /\ invocation = "call"
    /\ pc = "map"
    /\ Len(keys) = 2
    /\ Cardinality(discarded) = 1
    /\ Cardinality(Held) = 1
    /\ queue = <<>>
    /\ \E i \in Items : status[i] = "DONE"

\* C17. Store soundness: a row of processed_files that this run added is an
\* item for which a compress_image call of this run returned, and the rows
\* of earlier runs stay; an item that was abandoned or whose every attempt
\* failed is not a row, and an item process_image returned True for is a row
\* that this run wrote.
StoreSoundness ==
    invocation = "call" =>
        /\ store0 \subseteq store
        /\ (store \ store0) \subseteq compressed
        /\ run = 1 => store0 = {}
        /\ \A i \in Items :
              /\ status[i] \in {"ABANDONED", "RAISED"} => i \notin store
              /\ (i \in Range(dispatched) /\ i \notin compressed) => i \notin store
              /\ status[i] = "DONE" => (i \in store /\ marked[i] >= 1)
              /\ marked[i] >= 1 => i \in compressed

\* One item is recorded and DONE, another was attempted with every key and is
\* not recorded, a third was abandoned without an attempt and is not recorded.
StoreSoundnessWitness ==
    /\ invocation = "call"
    /\ \E i, j, k \in Items :
          /\ status[i] = "DONE"
          /\ i \in store \ store0
          /\ status[j] = "ABANDONED"
          /\ j \in attempted
          /\ j \notin store
          /\ status[k] = "ABANDONED"
          /\ k \notin attempted
          /\ k \notin store

\* C18. End-of-run report: once pool.map has returned and process_directory
\* is at its final test, no worker holds a key, so the queue is empty exactly
\* when every loaded key was discarded; "All API keys failed and were
\* discarded." is printed exactly when no key is left to use, and not before
\* the test.
EndOfRunReport ==
    invocation = "call" =>
        /\ pc \in {"report", "returned"} =>
              /\ Held = {}
              /\ \A w \in Workers : wpc[w] = "idle"
              /\ (queue = <<>>) <=> (discarded = Entries)
              /\ Range(queue) = Entries \ discarded
        /\ pc = "returned" => (allFailedMsg <=> Range(queue) = {})
        /\ pc # "returned" => ~allFailedMsg

\* The message was printed after a run in which an item was completed before
\* the last key was discarded.
EndOfRunReportWitness ==
    /\ invocation = "call"
    /\ pc = "returned"
    /\ allFailedMsg
    /\ discarded = Entries
    /\ \E i \in Items : status[i] = "DONE"

====
